---- MODULE Spec2Model ----
(***************************************************************************)
(* ta2music (src/main.py): a watchdog handler sees files created under the *)
(* TubeArchivist directory, and for each settled video file runs           *)
(* MusicDownloader.process_video: hash the file, look the hash up in the   *)
(* sqlite ledger, ask TubeArchivist whether the video is in a MUSIC        *)
(* playlist, fetch its title, run yt-dlp, and mark the hash.               *)
(*                                                                         *)
(* Strings that the code inspects character by character (playlist names,  *)
(* titles, video ids, output names) are sequences of one-character         *)
(* strings.  A falsy optional (None or '') is the empty sequence.          *)
(***************************************************************************)
EXTENDS Integers, Sequences, FiniteSets, TLC

VARIABLES
    fs,          \* the watched tree: path -> content, or Absent
    events,      \* watchdog's queue of creation events not yet dispatched
    nevents,     \* creation events raised so far (bounded by MaxEvents)
    processing,  \* VideoFileHandler.processing
    cb,          \* per callback: position in _process_file / process_video and its locals
    ledger,      \* rows of table mp3_downloaded_videos, in insertion order
    outdir,      \* names n such that <navidrome_dir>/n.mp3 exists
    ta_api,      \* MusicDownloader.ta_api is not None
    done,        \* history: hashes for which some process_video call returned True
    burst,       \* history: per path, the process_video calls made for the current
                 \*   run of creation events, each raised before the one before it
                 \*   was done with
    gate_video,  \* is_in_music_playlist under test: its argument,
    gate_service,\*   the service's answers,
    gate_result, \*   and what it returned ("unset" before the call)
    san_title,   \* _sanitize_filename under test: its argument
    san_name,    \*   and what it returned (called is FALSE before the call)
    env,         \* what main finds at startup: directories, database, TA_* variables
    main_pc,     \* main's position
    observer     \* the watchdog Observer: "unstarted", "running", "stopped", "joined"

vars == <<fs, events, nevents, processing, cb, ledger, outdir, ta_api, done, burst,
          gate_video, gate_service, gate_result, san_title, san_name,
          env, main_pc, observer>>

gateVars == <<gate_video, gate_service, gate_result>>
nameVars == <<san_title, san_name>>
sysVars == <<env, main_pc, observer>>
mainVars == <<fs, events, nevents, processing, cb, ledger, outdir, ta_api, done, burst>>

(***************************************************************************)
(* Bounds                                                                  *)
(***************************************************************************)
\* creation events raised in one behaviour
MaxEvents == 2
\* playlists in one answer of /api/playlist/ (gate specification)
MaxPlaylists == 2

\* event callbacks that may be running at once
Callbacks == {1, 2}

(***************************************************************************)
(* Files                                                                   *)
(***************************************************************************)
Absent == -1
EmptyContent == 0
Contents == {0, 1, 2}

\* the directories of the watched tree (one per channel)
DirPath == [stem |-> <<"c">>, suffix |-> ""]

Stems == {<<"a">>, <<"b">>}
Paths == { [stem |-> <<"a">>, suffix |-> ".mp4"],
           [stem |-> <<"b">>, suffix |-> ".MKV"],
           [stem |-> <<"a">>, suffix |-> ".txt"] }

\* what the archiver writes: a.mp4 still empty or complete, b.MKV with the same
\* bytes as a.mp4 or with others, and a text file beside them
Creations == { <<[stem |-> <<"a">>, suffix |-> ".mp4"], 0>>,
               <<[stem |-> <<"a">>, suffix |-> ".mp4"], 1>>,
               <<[stem |-> <<"b">>, suffix |-> ".MKV"], 1>>,
               <<[stem |-> <<"b">>, suffix |-> ".MKV"], 2>>,
               <<[stem |-> <<"a">>, suffix |-> ".txt"], 1>> }

\* hashlib.md5 of the content, as hexdigest (first 8 digits); "" is the failure sentinel
Md5(c) == CASE c = 0 -> "d41d8cd9"
            [] c = 1 -> "c4ca4238"
            [] c = 2 -> "c81e728d"

GetFileHash(content, readok) == IF readok THEN Md5(content) ELSE ""

LowerSuffix(s) == CASE s = ".MKV" -> ".mkv"
                    [] s = ".MP4" -> ".mp4"
                    [] OTHER -> s

video_extensions == {".mp4", ".mkv", ".webm", ".avi", ".mov", ".flv", ".m4v"}

\* mutant: the extension is not looked at
IsVideoFileAny(p) == TRUE

IsVideoFile(p) == LowerSuffix(p.suffix) \in video_extensions

\* Path.stem; a falsy stem makes _extract_video_id return None
ExtractVideoId(p) == p.stem

(***************************************************************************)
(* Ledger (sqlite table mp3_downloaded_videos, file_hash PRIMARY KEY)      *)
(***************************************************************************)
HasRow(rows, h) == \E i \in 1..Len(rows) : rows[i].file_hash = h

\* SELECT 1 ... WHERE file_hash = ?; any sqlite error is logged and answers False
IsMp3Downloaded(rows, h, dbok) == dbok /\ HasRow(rows, h)

\* mutant: a plain INSERT into a table without the primary key
MarkPlainInsert(rows, h, dbok) ==
    IF ~dbok THEN rows ELSE Append(rows, [file_hash |-> h])

\* INSERT OR IGNORE ...; commit; any sqlite error is logged and swallowed
MarkAsMp3Downloaded(rows, h, dbok) ==
    IF ~dbok THEN rows
    ELSE IF HasRow(rows, h) THEN rows
    ELSE Append(rows, [file_hash |-> h])

\* SELECT COUNT(*)
GetMp3DownloadedCount(rows) == Len(rows)

(***************************************************************************)
(* Output names                                                            *)
(***************************************************************************)
NameCap == 200

InvalidChars == {"<", ">", ":", "\"", "/", "\\", "|", "?", "*", "\t", "\n"}
StripChars == {" ", "."}

ReSub(s) == [i \in 1..Len(s) |-> IF s[i] \in InvalidChars THEN "_" ELSE s[i]]

RECURSIVE LStrip(_)
LStrip(s) == IF s # <<>> /\ Head(s) \in StripChars THEN LStrip(Tail(s)) ELSE s

RECURSIVE RStrip(_)
RStrip(s) == IF s # <<>> /\ s[Len(s)] \in StripChars
             THEN RStrip(SubSeq(s, 1, Len(s) - 1)) ELSE s

Strip(s) == RStrip(LStrip(s))

Truncate(s) == IF Len(s) > NameCap THEN SubSeq(s, 1, NameCap) ELSE s

untitled == <<"u", "n", "t", "i", "t", "l", "e", "d">>

SanitizeFilename(filename) ==
    LET sanitized == Truncate(Strip(ReSub(filename)))
    IN  IF sanitized # <<>> THEN sanitized ELSE untitled

\* the stem of expected_mp3_path
ExpectedName(youtube_id, video_title) ==
    IF video_title # <<>> THEN SanitizeFilename(video_title) ELSE youtube_id

NoPath == <<>>
NoTitle == <<>>

(***************************************************************************)
(* TubeArchivistAPI                                                        *)
(*                                                                         *)
(* A JSON field is [kind, val]: kind "missing" (no such key), "null", or   *)
(* "str" with val its characters.  An answer of the service is             *)
(*   playlists_ok : /api/playlist/ answered 2xx with a JSON object         *)
(*   playlists    : its 'data' list, each [playlist_name, playlist_id]     *)
(*   entries      : per playlist id, [ok, playlist_entries], each entry    *)
(*                  [is_dict, has_youtube_id, youtube_id]                  *)
(***************************************************************************)
Str(s) == [kind |-> "str", val |-> s]
Null == [kind |-> "null", val |-> <<>>]
Missing == [kind |-> "missing", val |-> <<>>]

Range(s) == {s[i] : i \in 1..Len(s)}

UpperChar(c) == CASE c = "m" -> "M" [] c = "u" -> "U" [] c = "s" -> "S"
                  [] c = "i" -> "I" [] c = "c" -> "C" [] c = "x" -> "X"
                  [] OTHER -> c

Upper(s) == [i \in 1..Len(s) |-> UpperChar(s[i])]

StartsWith(s, prefix) ==
    Len(s) >= Len(prefix) /\ SubSeq(s, 1, Len(prefix)) = prefix

MUSIC == <<"M", "U", "S", "I", "C">>

\* a RequestException is logged and answers []
GetTaPlaylists(svc) == IF svc.playlists_ok THEN svc.playlists ELSE <<>>

RECURSIVE YoutubeIds(_)
YoutubeIds(entries) ==
    IF entries = <<>> THEN <<>>
    ELSE LET entry == Head(entries)
         IN  IF entry.is_dict /\ entry.has_youtube_id
             THEN <<entry.youtube_id>> \o YoutubeIds(Tail(entries))
             ELSE YoutubeIds(Tail(entries))

\* a RequestException is logged and answers []
GetTaPlaylistVideos(svc, ta_playlist_id) ==
    IF svc.entries[ta_playlist_id].ok
    THEN YoutubeIds(svc.entries[ta_playlist_id].playlist_entries)
    ELSE <<>>

\* the for loop of is_in_music_playlist over the playlists left to visit:
\* "true" (return True), "false" (loop ended), "raise" (an exception left the loop)
RECURSIVE ScanPlaylists(_, _, _)
ScanPlaylists(svc, ta_playlists, video_id) ==
    IF ta_playlists = <<>> THEN "false"
    ELSE LET playlist == Head(ta_playlists)
             name == playlist.playlist_name
             id == playlist.playlist_id
         IN  IF name.kind = "null" THEN "raise"   \* None has no upper()
             ELSE LET playlist_name == IF name.kind = "missing" THEN <<>> ELSE name.val
                  IN  IF /\ StartsWith(Upper(playlist_name), MUSIC)
                         /\ id.kind = "str" /\ id.val # <<>>
                         /\ video_id \in Range(GetTaPlaylistVideos(svc, id.val))
                      THEN "true"
                      ELSE ScanPlaylists(svc, Tail(ta_playlists), video_id)

\* except Exception: return False
IsInMusicPlaylist(video_id, svc) ==
    ScanPlaylists(svc, GetTaPlaylists(svc), video_id) = "true"

\* get_ta_video_info's answer as process_video uses it:
\*   kind "none" (RequestException, or a falsy body), "object" (a JSON object with
\*   fields title and video_title, each a possibly empty string), "nonobject"
\*   (a truthy JSON value that is no object, which has no get())
VideoInfos ==
    { [kind |-> "none", title |-> <<>>, video_title |-> <<>>],
      [kind |-> "nonobject", title |-> <<>>, video_title |-> <<>>],
      [kind |-> "object", title |-> <<"s">>, video_title |-> <<>>],
      [kind |-> "object", title |-> <<>>, video_title |-> <<" ", "s">>],
      [kind |-> "object", title |-> <<>>, video_title |-> <<>>] }

\* video_info.get('title') or video_info.get('video_title')
TitleOf(video_info) ==
    IF video_info.kind # "object" THEN NoTitle
    ELSE IF video_info.title # <<>> THEN video_info.title
    ELSE video_info.video_title

(***************************************************************************)
(* Answers of the service                                                  *)
(***************************************************************************)
PlaylistIds == {<<"1">>, <<"2">>}

Entry(v) == [is_dict |-> TRUE, has_youtube_id |-> TRUE, youtube_id |-> v]

EntryLists == { <<>>, <<Entry(<<"a">>)>>,
                <<[is_dict |-> TRUE, has_youtube_id |-> FALSE, youtube_id |-> <<"a">>],
                  Entry(<<"b">>)>> }

PlaylistNames == { Str(<<"M", "U", "S", "I", "C", "2">>), Str(<<"m", "u", "s", "i", "c">>),
                   Str(<<"x", "M", "U", "S", "I", "C">>), Str(<<"M", "U", "S", "I">>),
                   Null, Missing }

PlaylistIdFields == { Str(<<"1">>), Str(<<"2">>), Str(<<>>), Null, Missing }

PlaylistObjects == [playlist_name : PlaylistNames, playlist_id : PlaylistIdFields]

RECURSIVE SeqsUpTo(_, _)
SeqsUpTo(S, n) ==
    IF n = 0 THEN {<<>>}
    ELSE LET shorter == SeqsUpTo(S, n - 1)
         IN  shorter \cup {Append(s, x) : s \in shorter, x \in S}

GateServices ==
    [ playlists_ok : {TRUE},
      playlists : SeqsUpTo(PlaylistObjects, MaxPlaylists),
      entries : [PlaylistIds -> [ok : {TRUE}, playlist_entries : EntryLists]] ]
    \cup
    [ playlists_ok : BOOLEAN,
      playlists : {<<[playlist_name |-> Str(<<"m", "u", "s", "i", "c">>),
                      playlist_id |-> Str(<<"1">>)]>>},
      entries : [PlaylistIds -> [ok : BOOLEAN, playlist_entries : {<<Entry(<<"a">>)>>}]] ]

\* the answers process_video may meet: both videos in playlist "MUSIC2", no playlist
\* at all, and the service unreachable
MainServices ==
    { [ playlists_ok |-> TRUE,
        playlists |-> <<[playlist_name |-> Str(<<"M", "U", "S", "I", "C", "2">>),
                         playlist_id |-> Str(<<"1">>)]>>,
        entries |-> [i \in PlaylistIds |->
                       [ok |-> TRUE, playlist_entries |-> <<Entry(<<"a">>), Entry(<<"b">>)>>]] ],
      [ playlists_ok |-> TRUE,
        playlists |-> <<>>,
        entries |-> [i \in PlaylistIds |-> [ok |-> TRUE, playlist_entries |-> <<>>]] ],
      [ playlists_ok |-> FALSE,
        playlists |-> <<>>,
        entries |-> [i \in PlaylistIds |-> [ok |-> FALSE, playlist_entries |-> <<>>]] ] }

NoService == [ playlists_ok |-> FALSE, playlists |-> <<>>,
               entries |-> [i \in PlaylistIds |-> [ok |-> FALSE, playlist_entries |-> <<>>]] ]

(***************************************************************************)
(* Event callbacks                                                         *)
(*                                                                         *)
(* pc: "idle" (no callback running), "settle" (in time.sleep(2), after the *)
(* membership check), and inside process_video "pv" (entered), "ledger"    *)
(* (hash computed), "gate", "title", "fetch" (_download_mp3_with_thumbnail *)
(* entered), "run" (yt-dlp running), "mark" (fetch returned).              *)
(*                                                                         *)
(* The fields after mp3_path are history of the current (or last) call:    *)
(*   prior       `done' when process_video was called (kept until the hash *)
(*               is known)                                                 *)
(*   seen_done   the file's hash was in `done' when process_video was      *)
(*               called                                                    *)
(*   contained   what is_mp3_downloaded answered                           *)
(*   pre_exists  expected_mp3_path existed when the fetch was entered      *)
(*   fetch_result how the fetch ended                                      *)
(*   invocations subprocess.run calls                                      *)
(*   mark_result what mark_as_mp3_downloaded did: "inserted" a row,        *)
(*               "ignored" a hash already there, "failed" (sqlite error)   *)
(*   outcome     how the callback ended                                    *)
(*   calls       what process_video has called so far, in order: "hash"    *)
(*               (_get_file_hash), "ledger" (is_mp3_downloaded), "gate"    *)
(*               (is_in_music_playlist), "title" (get_ta_video_info),      *)
(*               "fetch" (_download_mp3_with_thumbnail)                    *)
(* When the callback returns its locals are dropped; contained,            *)
(* fetch_result, mark_result, outcome and calls stay until the next event. *)
(***************************************************************************)
PvStates == {"pv", "ledger", "gate", "title", "fetch", "run", "mark"}

FetchFailures == {"timeout", "nonzero", "oserror", "notproduced"}

SomePath == CHOOSE p \in Paths : TRUE

Fresh == [ pc |-> "idle", file_path |-> SomePath, file_hash |-> "",
           video_title |-> NoTitle, mp3_path |-> NoPath,
           prior |-> {}, seen_done |-> FALSE, contained |-> FALSE, pre_exists |-> FALSE,
           fetch_result |-> "none", invocations |-> 0, mark_result |-> "none",
           outcome |-> "none", calls |-> <<>> ]

\* a callback is handling path p: from the membership check to its return
Handling(p) == \E t \in Callbacks : cb[t].pc # "idle" /\ cb[t].file_path = p

\* an event for path p waits in the queue
Queued(p) == \E i \in 1..Len(events) : events[i].src_path = p

(***************************************************************************)
(* The environment                                                         *)
(***************************************************************************)
\* a file appears under the watched root; watchdog queues on_created for it
CreateFile(p, c) ==
    /\ observer = "running"
    /\ nevents < MaxEvents
    /\ fs' = [fs EXCEPT ![p] = c]
    /\ events' = Append(events, [src_path |-> p, is_directory |-> FALSE])
    /\ nevents' = nevents + 1
    /\ burst' = IF Handling(p) \/ Queued(p) THEN burst ELSE [burst EXCEPT ![p] = 0]
    /\ UNCHANGED <<processing, cb, ledger, outdir, ta_api, done, gateVars, nameVars, sysVars>>

\* a directory appears under the watched root
CreateDirectory ==
    /\ observer = "running"
    /\ nevents < MaxEvents
    /\ events' = Append(events, [src_path |-> DirPath, is_directory |-> TRUE])
    /\ nevents' = nevents + 1
    /\ UNCHANGED <<fs, processing, cb, ledger, outdir, ta_api, done, burst, gateVars, nameVars, sysVars>>

\* Files are also removed behind the program's back (a temporary file, a move, the
\* music library's owner deleting an mp3).  A removal shows only at the program's
\* next look at the file, so each look below is preceded by the choice `gone':
\* the file was removed since the last step.
Vanish(files, p, gone) == IF gone THEN [files EXCEPT ![p] = Absent] ELSE files

(***************************************************************************)
(* VideoFileHandler                                                        *)
(***************************************************************************)
\* the callback returns before process_video is called
Returned(c, how) ==
    [Fresh EXCEPT !.outcome = how, !.contained = c.contained,
                  !.fetch_result = c.fetch_result, !.mark_result = c.mark_result,
                  !.calls = c.calls]

ReturnEarly(t, c, how) ==
    cb' = [cb EXCEPT ![t] = Returned(c, how)]

\* mutant: the discard follows the call instead of standing in a finally clause
ReturnNoFinally(t, c, how) ==
    /\ cb' = [cb EXCEPT ![t] = Returned(c, how)]
    /\ processing' = IF how = "raised" THEN processing ELSE processing \ {c.file_path}

\* process_video returns (or raises); finally: self.processing.discard(file_path)
Return(t, c, how) ==
    /\ cb' = [cb EXCEPT ![t] = Returned(c, how)]
    /\ processing' = processing \ {c.file_path}

\* on_created, and _process_file up to time.sleep.  Callbacks are interchangeable:
\* an event goes to the first callback that is not running.
OnCreated(t) ==
    /\ observer = "running"
    /\ cb[t].pc = "idle"
    /\ \A u \in Callbacks : u < t => cb[u].pc # "idle"
    /\ events # <<>>
    /\ LET event == Head(events)
           c == [Fresh EXCEPT !.file_path = event.src_path]
       IN  /\ events' = Tail(events)
           /\ IF event.is_directory THEN ReturnEarly(t, c, "directory")
              ELSE IF event.src_path \in processing THEN ReturnEarly(t, c, "dropped")
              ELSE cb' = [cb EXCEPT ![t] = [c EXCEPT !.pc = "settle"]]
    /\ UNCHANGED <<fs, nevents, processing, ledger, outdir, ta_api, done, burst, gateVars, nameVars, sysVars>>

\* mutant: the size is not looked at
IsEmptyFileNever(content) == FALSE

\* file_path.stat().st_size == 0
IsEmptyFile(content) == content = EmptyContent

\* _process_file after the sleep: exists(), stat().st_size, processing.add, and the
\* call of process_video.  The file may vanish between exists() and stat(), which
\* then raises FileNotFoundError out of the callback ("statfail").
Settle(t) ==
    /\ cb[t].pc = "settle"
    /\ \E gone \in BOOLEAN, between \in BOOLEAN :
         LET p == cb[t].file_path
             files == Vanish(fs, p, gone)
         IN  IF files[p] = Absent
             THEN /\ fs' = files
                  /\ ReturnEarly(t, cb[t], "noise")
                  /\ UNCHANGED <<processing, burst>>
             ELSE IF between
             THEN /\ fs' = Vanish(files, p, TRUE)
                  /\ ReturnEarly(t, cb[t], "statfail")
                  /\ UNCHANGED <<processing, burst>>
             ELSE IF IsEmptyFile(files[p])
             THEN /\ fs' = files
                  /\ ReturnEarly(t, cb[t], "noise")
                  /\ UNCHANGED <<processing, burst>>
             ELSE /\ fs' = files
                  /\ processing' = processing \cup {p}
                  /\ cb' = [cb EXCEPT ![t].pc = "pv", ![t].prior = done]
                  /\ burst' = [burst EXCEPT ![p] = @ + 1]
    /\ UNCHANGED <<events, nevents, ledger, outdir, ta_api, done, gateVars, nameVars, sysVars>>

(***************************************************************************)
(* MusicDownloader.process_video                                           *)
(***************************************************************************)
\* mutant: the hash is used without being tested
HashNeverFailed(file_hash) == FALSE

\* if not file_hash
HashFailed(file_hash) == file_hash = ""

\* exists(), _is_video_file, _get_file_hash
PvHash(t) ==
    /\ cb[t].pc = "pv"
    /\ \E gone \in BOOLEAN, readok \in BOOLEAN :
         LET p == cb[t].file_path
             files == Vanish(fs, p, gone)
             file_hash == GetFileHash(files[p], readok)
         IN  /\ fs' = files
             /\ IF files[p] = Absent THEN Return(t, cb[t], "noexist")
                ELSE IF ~IsVideoFile(p) THEN Return(t, cb[t], "notvideo")
                ELSE IF HashFailed(file_hash)
                THEN Return(t, [cb[t] EXCEPT !.calls = Append(@, "hash")], "hashfail")
                ELSE /\ cb' = [cb EXCEPT ![t].pc = "ledger", ![t].file_hash = file_hash,
                                          ![t].seen_done = (file_hash \in cb[t].prior),
                                          ![t].prior = {},
                                          ![t].calls = Append(@, "hash")]
                     /\ UNCHANGED processing
    /\ UNCHANGED <<events, nevents, ledger, outdir, ta_api, done, burst, gateVars, nameVars, sysVars>>

\* mutant: the ledger's answer is not acted on
AfterLedgerNoDedup(contained, api, video_id) ==
    IF ~api THEN "nogate"
    ELSE IF video_id = <<>> THEN "noid"
    ELSE "gate"

\* mutant: without a client the video id is used as it is
AfterLedgerNoApiTest(contained, api, video_id) ==
    IF contained THEN "dup"
    ELSE IF video_id = <<>> THEN "noid"
    ELSE "gate"

\* where process_video goes once is_mp3_downloaded has answered: return False as
\* already downloaded ("dup"), for want of a client ("nogate") or of a video id
\* ("noid"), or go on to the playlist check ("gate")
AfterLedger(contained, api, video_id) ==
    IF contained THEN "dup"
    ELSE IF ~api THEN "nogate"
    ELSE IF video_id = <<>> THEN "noid"
    ELSE "gate"

\* is_mp3_downloaded, the ta_api test, _extract_video_id
PvLedger(t) ==
    /\ cb[t].pc = "ledger"
    /\ \E dbok \in BOOLEAN :
         LET contained == IsMp3Downloaded(ledger, cb[t].file_hash, dbok)
             c == [cb[t] EXCEPT !.contained = contained, !.calls = Append(@, "ledger")]
             goes == AfterLedger(contained, ta_api, ExtractVideoId(c.file_path))
         IN  IF goes = "gate"
             THEN /\ cb' = [cb EXCEPT ![t] = [c EXCEPT !.pc = "gate"]]
                  /\ UNCHANGED processing
             ELSE Return(t, c, goes)
    /\ UNCHANGED <<fs, events, nevents, ledger, outdir, ta_api, done, burst, gateVars, nameVars, sysVars>>

\* ta_api.is_in_music_playlist(video_id)
PvGate(t) ==
    /\ cb[t].pc = "gate"
    /\ \E svc \in MainServices :
         IF IsInMusicPlaylist(ExtractVideoId(cb[t].file_path), svc)
         THEN /\ cb' = [cb EXCEPT ![t].pc = "title", ![t].calls = Append(@, "gate")]
              /\ UNCHANGED processing
         ELSE Return(t, [cb[t] EXCEPT !.calls = Append(@, "gate")], "notqual")
    /\ UNCHANGED <<fs, events, nevents, ledger, outdir, ta_api, done, burst, gateVars, nameVars, sysVars>>

\* ta_api.get_ta_video_info(video_id) and the title taken from it
PvTitle(t) ==
    /\ cb[t].pc = "title"
    /\ \E video_info \in VideoInfos :
         IF video_info.kind = "nonobject"
         THEN Return(t, [cb[t] EXCEPT !.calls = Append(@, "title")], "raised")
         ELSE /\ cb' = [cb EXCEPT ![t].pc = "fetch", ![t].video_title = TitleOf(video_info),
                                   ![t].calls = Append(@, "title")]
              /\ UNCHANGED processing
    /\ UNCHANGED <<fs, events, nevents, ledger, outdir, ta_api, done, burst, gateVars, nameVars, sysVars>>

\* mutant: the download is started whatever is there
NeverAlreadyFetched(expected, mp3s) == FALSE

\* expected_mp3_path.exists(), before the download
AlreadyFetched(expected, mp3s) == expected \in mp3s

\* _download_mp3_with_thumbnail up to subprocess.run: the expected path and the
\* test whether it exists already
PvFetch(t) ==
    /\ cb[t].pc = "fetch"
    /\ LET expected == ExpectedName(ExtractVideoId(cb[t].file_path), cb[t].video_title)
           c == [cb[t] EXCEPT !.pre_exists = (expected \in outdir),
                              !.calls = Append(@, "fetch")]
       IN  IF AlreadyFetched(expected, outdir)
           THEN cb' = [cb EXCEPT ![t] = [c EXCEPT !.pc = "mark", !.mp3_path = expected,
                                                  !.fetch_result = "exists"]]
           ELSE cb' = [cb EXCEPT ![t] = [c EXCEPT !.pc = "run",
                                                  !.invocations = c.invocations + 1]]
    /\ UNCHANGED <<fs, events, nevents, processing, ledger, outdir, ta_api, done, burst, gateVars, nameVars, sysVars>>

\* how subprocess.run ends: exit 0, CalledProcessError, TimeoutExpired, or another
\* exception (yt-dlp missing); in each case the mp3 may or may not have been written
ExitKinds == {"ok", "nonzero", "timeout", "oserror"}

\* subprocess.run returns or raises, and the rest of _download_mp3_with_thumbnail
PvRun(t) ==
    /\ cb[t].pc = "run"
    /\ \E exit \in ExitKinds, produced \in BOOLEAN :
         LET expected == ExpectedName(ExtractVideoId(cb[t].file_path), cb[t].video_title)
             files == IF produced THEN outdir \cup {expected} ELSE outdir
         IN  /\ outdir' = files
             /\ IF exit = "ok"
                THEN IF expected \in files
                     THEN cb' = [cb EXCEPT ![t].pc = "mark", ![t].mp3_path = expected,
                                           ![t].fetch_result = "ok"]
                     ELSE cb' = [cb EXCEPT ![t].pc = "mark", ![t].mp3_path = NoPath,
                                           ![t].fetch_result = "notproduced"]
                ELSE cb' = [cb EXCEPT ![t].pc = "mark", ![t].mp3_path = NoPath,
                                      ![t].fetch_result = exit]
    /\ UNCHANGED <<fs, events, nevents, processing, ledger, ta_api, done, burst, gateVars, nameVars, sysVars>>

MarkResult(before, after, dbok) ==
    IF ~dbok THEN "failed"
    ELSE IF GetMp3DownloadedCount(after) = GetMp3DownloadedCount(before) THEN "ignored"
    ELSE "inserted"

\* mutant: the hash is marked whatever the fetch returned
FetchAlwaysSucceeded(mp3_path, mp3s) == TRUE

\* mp3_path and mp3_path.exists()
FetchSucceeded(mp3_path, mp3s) == mp3_path # NoPath /\ mp3_path \in mp3s

\* if mp3_path and mp3_path.exists(): mark_as_mp3_downloaded; return True / else False
PvMark(t) ==
    /\ cb[t].pc = "mark"
    /\ \E gone \in BOOLEAN, dbok \in BOOLEAN :
         LET mp3s == IF gone THEN outdir \ {cb[t].mp3_path} ELSE outdir
             rows == MarkAsMp3Downloaded(ledger, cb[t].file_hash, dbok)
         IN  /\ outdir' = mp3s
             /\ IF FetchSucceeded(cb[t].mp3_path, mp3s)
                THEN /\ ledger' = rows
                     /\ done' = done \cup {cb[t].file_hash}
                     /\ Return(t, [cb[t] EXCEPT !.mark_result =
                                                   MarkResult(ledger, rows, dbok)], "ok")
                ELSE /\ Return(t, cb[t], "fetchfail")
                     /\ UNCHANGED <<ledger, done>>
    /\ UNCHANGED <<fs, events, nevents, ta_api, burst, gateVars, nameVars, sysVars>>

(***************************************************************************)
(* The program                                                             *)
(***************************************************************************)
\* the store survives restarts: it may hold a row of an earlier run
InitLedgers == { <<>>, <<[file_hash |-> Md5(1)]>> }

\* what main finds when it starts:
\*   navidrome_dir_exists  NAVIDROME_DIR is there
\*   db_ok                 the directory of DB_FILE can be made and sqlite can
\*                         create the table
\*   ta_api_url, ta_token  the variable is set and not empty
\*   api_init_ok           TubeArchivistAPI(...) does not raise
Environment(nav, db, url, token, init) ==
    [ navidrome_dir_exists |-> nav, db_ok |-> db, ta_api_url |-> url,
      ta_token |-> token, api_init_ok |-> init ]

Environments ==
    { Environment(TRUE, TRUE, TRUE, TRUE, TRUE),
      Environment(TRUE, TRUE, TRUE, FALSE, TRUE),
      Environment(TRUE, TRUE, TRUE, TRUE, FALSE),
      Environment(FALSE, TRUE, TRUE, TRUE, TRUE),
      Environment(TRUE, FALSE, TRUE, TRUE, TRUE),
      Environment(FALSE, FALSE, FALSE, FALSE, TRUE) }

NoSanitizeCall == [called |-> FALSE, name |-> <<>>]

Init ==
    /\ fs = [p \in Paths |-> Absent]
    /\ events = <<>>
    /\ nevents = 0
    /\ processing = {}
    /\ cb = [t \in Callbacks |-> Fresh]
    /\ ledger \in InitLedgers
    /\ outdir = {}
    /\ ta_api = FALSE
    /\ done = {}
    /\ burst = [p \in Paths |-> 0]
    /\ gate_video = <<>>
    /\ gate_service = NoService
    /\ gate_result = "unset"
    /\ san_title = <<>>
    /\ san_name = NoSanitizeCall
    /\ env \in Environments
    /\ main_pc = "start"
    /\ observer = "unstarted"

\* main's client: api stays None unless both variables are set and the constructor
\* succeeds
ApiConfigured(e) == e.ta_api_url /\ e.ta_token /\ e.api_init_ok

\* mutant: _init_database logs its exception without raising it again
StartupFailsDirOnly(e) == ~e.navidrome_dir_exists

\* MusicDownloader.__init__ raises: FileNotFoundError for the music directory, or
\* whatever mkdir or _init_database raised
StartupFails(e) == ~e.navidrome_dir_exists \/ ~e.db_ok

\* main up to observer.start(): an exception of MusicDownloader(...) is not caught
\* and ends the process
Startup ==
    /\ main_pc = "start"
    /\ IF StartupFails(env)
       THEN /\ main_pc' = "aborted"
            /\ UNCHANGED <<ta_api, observer>>
       ELSE /\ ta_api' = ApiConfigured(env)
            /\ observer' = "running"
            /\ main_pc' = "loop"
    /\ UNCHANGED <<fs, events, nevents, processing, cb, ledger, outdir, done, burst,
                   env, gateVars, nameVars>>

\* KeyboardInterrupt in the sleep loop: observer.stop()
Interrupt ==
    /\ main_pc = "loop"
    /\ observer' = "stopped"
    /\ main_pc' = "join"
    /\ UNCHANGED <<mainVars, env, gateVars, nameVars>>

\* mutant: join gives up waiting
ObserverFinishedAtOnce == TRUE

\* the observer's thread ends once the callback it is in has returned
ObserverFinished == \A t \in Callbacks : cb[t].pc = "idle"

\* observer.join() returns, and main with it
Join ==
    /\ main_pc = "join"
    /\ ObserverFinished
    /\ observer' = "joined"
    /\ main_pc' = "exited"
    /\ UNCHANGED <<mainVars, env, gateVars, nameVars>>

\* main starting up, and the program at work for as long as it is left running
Next ==
    \/ Startup
    \/ \E f \in Creations : CreateFile(f[1], f[2])
    \/ CreateDirectory
    \/ \E t \in Callbacks : OnCreated(t)
    \/ \E t \in Callbacks : Settle(t)
    \/ \E t \in Callbacks : PvHash(t)
    \/ \E t \in Callbacks : PvLedger(t)
    \/ \E t \in Callbacks : PvGate(t)
    \/ \E t \in Callbacks : PvTitle(t)
    \/ \E t \in Callbacks : PvFetch(t)
    \/ \E t \in Callbacks : PvRun(t)
    \/ \E t \in Callbacks : PvMark(t)

Spec == Init /\ [][Next]_vars

\* a step of an event callback past on_created
CallbackStep ==
    \E t \in Callbacks :
        \/ Settle(t) \/ PvHash(t) \/ PvLedger(t) \/ PvGate(t)
        \/ PvTitle(t) \/ PvFetch(t) \/ PvRun(t) \/ PvMark(t)

\* the same, and the interrupt that ends it
NextLive ==
    \/ Next
    \/ Interrupt
    \/ Join

\* Threads that can run do run: a callback under way goes on (the sleep ends, the
\* requests and the subprocess time out), and main returns from join once the
\* observer's thread has ended.
SpecLive == Init /\ [][NextLive]_vars /\ WF_vars(CallbackStep) /\ WF_vars(Join)

(***************************************************************************)
(* is_in_music_playlist on its own: one call, on any answer of the service *)
(***************************************************************************)
InitGate ==
    /\ fs = [p \in Paths |-> Absent]
    /\ events = <<>>
    /\ nevents = 0
    /\ processing = {}
    /\ cb = [t \in Callbacks |-> Fresh]
    /\ ledger = <<>>
    /\ outdir = {}
    /\ ta_api = TRUE
    /\ done = {}
    /\ burst = [p \in Paths |-> 0]
    /\ gate_video \in Stems
    /\ gate_service \in GateServices
    /\ gate_result = "unset"
    /\ san_title = <<>>
    /\ san_name = NoSanitizeCall
    /\ env = Environment(TRUE, TRUE, TRUE, TRUE, TRUE)
    /\ main_pc = "loop"
    /\ observer = "running"

GateCall ==
    /\ gate_result = "unset"
    /\ gate_result' = IF IsInMusicPlaylist(gate_video, gate_service) THEN "true" ELSE "false"
    /\ UNCHANGED <<gate_video, gate_service, mainVars, nameVars, sysVars>>

NextGate == GateCall

SpecGate == InitGate /\ [][NextGate]_vars

(***************************************************************************)
(* _sanitize_filename on its own: one call, on any title                   *)
(***************************************************************************)
\* characters a title is made of past its padding: a letter, the two that strip()
\* removes, and two that the pattern replaces
TitleChars == {"a", " ", ".", "?", "/"}

\* the longest tail of a title
MaxTail == 3

\* n letters
Pad(n) == [i \in 1..n |-> "a"]

\* titles short and long: a tail of any characters, after no letters or after as
\* many as bring the title to the cap and past it
Titles ==
    { Pad(n) \o tail : n \in {0, NameCap - 2, NameCap - 1},
                       tail \in SeqsUpTo(TitleChars, MaxTail) }

InitName ==
    /\ fs = [p \in Paths |-> Absent]
    /\ events = <<>>
    /\ nevents = 0
    /\ processing = {}
    /\ cb = [t \in Callbacks |-> Fresh]
    /\ ledger = <<>>
    /\ outdir = {}
    /\ ta_api = TRUE
    /\ done = {}
    /\ burst = [p \in Paths |-> 0]
    /\ gate_video = <<>>
    /\ gate_service = NoService
    /\ gate_result = "unset"
    /\ san_title \in Titles
    /\ san_name = NoSanitizeCall
    /\ env = Environment(TRUE, TRUE, TRUE, TRUE, TRUE)
    /\ main_pc = "loop"
    /\ observer = "running"

SanitizeCall ==
    /\ ~san_name.called
    /\ san_name' = [called |-> TRUE, name |-> SanitizeFilename(san_title)]
    /\ UNCHANGED <<san_title, mainVars, gateVars, sysVars>>

NextName == SanitizeCall

SpecName == InitName /\ [][NextName]_vars

(***************************************************************************)
(* Properties                                                              *)
(***************************************************************************)
InPv(t) == cb[t].pc \in PvStates

\* process_video of callback t returns True in this step
ReturnsTrue(t) == cb[t].pc = "mark" /\ cb'[t].pc = "idle" /\ cb'[t].outcome = "ok"

IsPrefix(s, r) == Len(s) <= Len(r) /\ SubSeq(r, 1, Len(s)) = s

\* C1: once a process_video call for a file with content hash h has returned True,
\* no later call (one made after that return) for a file with the same bytes runs
\* the external fetch command.
C1_NeverRefetched ==
    \A t \in Callbacks : cb[t].seen_done => cb[t].pc # "run"

\* C2: of creation events for one path, each raised before the one before it was
\* done with, only one leads to a call of process_video: the others are dropped.
C2_OnePassPerBurst ==
    \A p \in Paths : burst[p] <= 1

\* C3: no two process_video calls for the same path are in progress at once.
C3_OnePassPerPath ==
    \A t, u \in Callbacks :
        (t # u /\ InPv(t) /\ InPv(u)) => cb[t].file_path # cb[u].file_path

\* C4: when is_mp3_downloaded answers True at the ledger check, the call ends
\* there, as already downloaded: it queries no playlist, enters no fetch and runs
\* no external command.
C4_ContainedSkipsFetch ==
    \A t \in Callbacks :
        cb[t].contained =>
            /\ cb[t].pc = "idle"
            /\ cb[t].outcome = "dup"
            /\ cb[t].fetch_result = "none"
            /\ cb[t].invocations = 0
            /\ cb[t].mark_result = "none"

C4_Witness ==
    \E t \in Callbacks : cb[t].contained /\ cb[t].pc = "idle" /\ cb[t].outcome = "dup"

\* C5: when process_video returns True for a file whose hash the ledger does not
\* hold yet, the ledger holds the hash at that return and its count has grown by
\* exactly one.
C5_SuccessIsRecorded ==
    [][\A t \in Callbacks :
          (ReturnsTrue(t) /\ ~HasRow(ledger, cb[t].file_hash)) =>
              /\ HasRow(ledger', cb[t].file_hash)
              /\ GetMp3DownloadedCount(ledger') = GetMp3DownloadedCount(ledger) + 1]_vars

\* C6: the ledger changes only in the step of a process_video call whose fetch
\* returned a path that exists, and which returns True; a call whose fetch timed
\* out, exited non-zero, raised, or produced no file holds no path, has run the
\* external command at most once, leaves the ledger as it is and returns False.
C6_LedgerOnlyAfterFetch ==
    /\ [](\A t \in Callbacks :
            cb[t].fetch_result \in FetchFailures =>
                /\ cb[t].mp3_path = NoPath
                /\ cb[t].invocations <= 1
                /\ cb[t].mark_result = "none"
                /\ cb[t].pc \in {"mark", "idle"}
                /\ (cb[t].pc = "idle" => cb[t].outcome = "fetchfail"))
    /\ [][ledger' # ledger =>
            \E t \in Callbacks :
                /\ ReturnsTrue(t)
                /\ cb[t].fetch_result \in {"ok", "exists"}
                /\ cb[t].mp3_path # NoPath
                /\ cb[t].mp3_path \in outdir']_vars
    /\ [][\A t \in Callbacks :
            (cb[t].pc = "mark" /\ cb[t].fetch_result \in FetchFailures /\ cb'[t].pc = "idle")
                => ledger' = ledger]_vars

C6_Witness ==
    \E t \in Callbacks :
        /\ cb[t].fetch_result \in FetchFailures
        /\ cb[t].pc = "idle"
        /\ cb[t].outcome = "fetchfail"

\* C7: without a TubeArchivist client no process_video call gets past the client
\* test: none reaches the playlist check or the fetch, none runs the external
\* command or returns True, and neither the ledger nor the output directory changes.
SkippedOutcomes ==
    {"none", "directory", "dropped", "noise", "statfail", "noexist", "notvideo",
     "hashfail", "dup", "nogate"}

C7_NoGateNoFetch ==
    /\ [](~ta_api =>
            \A t \in Callbacks :
                /\ cb[t].pc \in {"idle", "settle", "pv", "ledger"}
                /\ cb[t].invocations = 0
                /\ cb[t].fetch_result = "none"
                /\ cb[t].outcome \in SkippedOutcomes)
    /\ [][~ta_api => (ledger' = ledger /\ outdir' = outdir)]_vars

C7_Witness ==
    /\ ~ta_api
    /\ \E t \in Callbacks : cb[t].pc = "idle" /\ cb[t].outcome = "nogate"

\* C8: when the expected mp3 exists as _download_mp3_with_thumbnail is entered,
\* the external command is not run and the expected path is what it returns.
C8_FetchIdempotent ==
    \A t \in Callbacks :
        cb[t].pre_exists =>
            /\ cb[t].pc = "mark"
            /\ cb[t].invocations = 0
            /\ cb[t].fetch_result = "exists"
            /\ cb[t].mp3_path =
                 ExpectedName(ExtractVideoId(cb[t].file_path), cb[t].video_title)

C8_Witness ==
    \E t \in Callbacks : cb[t].pre_exists /\ cb[t].pc = "mark" /\ cb[t].invocations = 0

\* C9: the ledger holds at most one row per hash; it only grows, by appending; a
\* mark of a hash it holds leaves it as it is; and a mark never raises: the call
\* that made it returns True.
C9_MarkIdempotentAppendOnly ==
    /\ [](\A i, j \in 1..Len(ledger) :
            ledger[i].file_hash = ledger[j].file_hash => i = j)
    /\ [][IsPrefix(ledger, ledger')]_vars
    /\ [][\A t \in Callbacks :
            (cb[t].pc = "mark" /\ cb'[t].mark_result # "none") =>
                /\ cb'[t].outcome = "ok"
                /\ (HasRow(ledger, cb[t].file_hash) => ledger' = ledger)]_vars

C9_Witness ==
    \E t \in Callbacks : cb[t].mark_result = "ignored" /\ HasRow(ledger, Md5(1))

\* what the claim takes is_in_music_playlist to compute: video_id is an entry of a
\* playlist whose name is a string that starts, whatever its case, with MUSIC
NameIsMusic(name) == name.kind = "str" /\ StartsWith(Upper(name.val), MUSIC)

MemberIds(svc, id) ==
    IF id.kind = "str" /\ id.val \in PlaylistIds
    THEN {e.youtube_id : e \in {x \in Range(svc.entries[id.val].playlist_entries) :
                                   x.is_dict /\ x.has_youtube_id}}
    ELSE {}

InSomeMusicPlaylist(video_id, svc) ==
    \E i \in 1..Len(svc.playlists) :
        /\ NameIsMusic(svc.playlists[i].playlist_name)
        /\ video_id \in MemberIds(svc, svc.playlists[i].playlist_id)

Answered(svc) == svc.playlists_ok /\ \A id \in PlaylistIds : svc.entries[id].ok

\* C10: for every list of playlists the service returns, is_in_music_playlist
\* answers True exactly when the video id is an entry of at least one playlist
\* whose name starts, whatever its case, with MUSIC.
C10_QualifyingIff ==
    (gate_result # "unset" /\ Answered(gate_service)) =>
        ((gate_result = "true") <=> InSomeMusicPlaylist(gate_video, gate_service))

\* C11: whatever the title, the name _sanitize_filename returns holds none of the
\* characters the pattern replaces, neither starts nor ends with a space or a dot,
\* and is at most 200 characters long.
C11_SanitizedIsClean ==
    san_name.called =>
        LET name == san_name.name
        IN  /\ \A i \in 1..Len(name) : name[i] \notin InvalidChars
            /\ name # <<>> => (Head(name) \notin StripChars /\ name[Len(name)] \notin StripChars)
            /\ Len(name) <= NameCap

\* C12: a title made of nothing but characters the pattern replaces comes out as
\* 'untitled', and no title comes out as the empty string.
AllIllegal(title) == title # <<>> /\ \A i \in 1..Len(title) : title[i] \in InvalidChars

C12_AllIllegalIsUntitled ==
    san_name.called =>
        /\ san_name.name # <<>>
        /\ AllIllegal(san_title) => san_name.name = untitled

\* C13: no callback ends with an exception: neither stat() on a file that vanished
\* after exists(), nor the title lookup on an answer that is no JSON object, nor
\* any other failure of the call leaves on_created by raising.
RaisedOutcomes == {"statfail", "raised"}

C13_NoExceptionCrosses ==
    \A t \in Callbacks : cb[t].outcome \notin RaisedOutcomes

\* C14: a path in the in-flight set is the path of a process_video call in
\* progress, so the set is empty whenever no callback is running, also after a
\* call that raised; and an event for a path with no call in progress is never
\* dropped: it goes on to the settle wait.
PathsInPv == {cb[t].file_path : t \in {u \in Callbacks : InPv(u)}}

C14_InFlightReleased ==
    /\ [](processing \subseteq PathsInPv)
    /\ [](ObserverFinished => processing = {})
    /\ [][(/\ events # <<>>
           /\ events' = Tail(events)
           /\ ~Head(events).is_directory
           /\ Head(events).src_path \notin PathsInPv)
          => \E t \in Callbacks :
                /\ cb[t].pc = "idle"
                /\ cb'[t].pc = "settle"
                /\ cb'[t].file_path = Head(events).src_path]_vars

C14_Witness ==
    /\ \E t \in Callbacks : cb[t].pc = "idle" /\ cb[t].outcome = "raised"
    /\ \E t \in Callbacks : cb[t].pc = "idle" /\ cb[t].outcome = "ok"
    /\ ObserverFinished
    /\ processing = {}

\* a path whose extension, whatever its case, is not one of the video extensions
NotOnAllowList(p) ==
    LowerSuffix(p.suffix) \notin {".mp4", ".mkv", ".webm", ".avi", ".mov", ".flv", ".m4v"}

\* C15 as stated: a path whose extension is not a video extension is never in the
\* settle wait, never in the in-flight set, and never reaches the hash, the
\* playlist check or the fetch.
C15_IgnoredAtSettleEntry ==
    /\ \A t \in Callbacks :
          NotOnAllowList(cb[t].file_path) => cb[t].pc = "idle"
    /\ \A p \in processing : ~NotOnAllowList(p)

\* C15, amended: such a path goes through the settle wait and into process_video,
\* which rejects it at its extension test: the call gets no further than that
\* test, computes no hash, queries no playlist, runs no fetch, and returns False
\* with the ledger and the output directory as they were.
C15_RejectedAtExtensionTest ==
    /\ [](\A t \in Callbacks :
            NotOnAllowList(cb[t].file_path) =>
                /\ cb[t].pc \in {"idle", "settle", "pv"}
                /\ cb[t].file_hash = ""
                /\ cb[t].invocations = 0
                /\ cb[t].fetch_result = "none")
    /\ [][\A t \in Callbacks :
            (cb[t].pc = "pv" /\ NotOnAllowList(cb[t].file_path) /\ cb'[t].pc # "pv") =>
                /\ cb'[t].pc = "idle"
                /\ cb'[t].outcome \in {"noexist", "notvideo"}
                /\ ledger' = ledger
                /\ outdir' = outdir]_vars

C15_Witness ==
    \E t \in Callbacks : cb[t].pc = "idle" /\ cb[t].outcome = "notvideo"

\* C16: when, after the sleep, the file is not there or is empty, the callback
\* ends (by returning, or by the exception of stat()) without calling
\* process_video: the path is not added to the in-flight set, and the ledger and
\* the output directory stay as they are.
C16_NoiseIsNotProcessed ==
    [][\A t \in Callbacks :
         (/\ cb[t].pc = "settle"
          /\ cb'[t].pc # "settle"
          /\ fs'[cb[t].file_path] \in {Absent, EmptyContent})
         => /\ cb'[t].pc = "idle"
            /\ cb'[t].outcome \in {"noise", "statfail"}
            /\ processing' = processing
            /\ burst' = burst
            /\ ledger' = ledger
            /\ outdir' = outdir]_vars

C16_Witness ==
    \E t \in Callbacks :
        cb[t].pc = "idle" /\ cb[t].outcome = "noise" /\ fs[[stem |-> <<"a">>, suffix |-> ".mp4"]] = EmptyContent

\* the output name of the call callback t is in, once its title is known
OutputName(t) == ExpectedName(ExtractVideoId(cb[t].file_path), cb[t].video_title)

\* C17: of two process_video calls for different files with the same output name,
\* at most one runs the external command: the other finds the mp3 at its test
\* before the download.
C17_FirstWriterWins ==
    \A t, u \in Callbacks :
        (/\ t # u
         /\ cb[t].pc \in {"run", "mark"}
         /\ cb[u].pc \in {"run", "mark"}
         /\ cb[t].file_path # cb[u].file_path
         /\ cb[t].file_hash # cb[u].file_hash
         /\ OutputName(t) = OutputName(u))
        => ~(cb[t].invocations >= 1 /\ cb[u].invocations >= 1)

\* C18: when the music directory is missing or the database cannot be set up, main
\* ends before the observer exists: no event is ever queued, no callback runs, and
\* ledger and output directory stay as they are.  In every other case, the
\* TubeArchivist settings missing included, main starts the observer and watches.
FatalAtStartup(e) == ~e.navidrome_dir_exists \/ ~e.db_ok

Untouched ==
    /\ observer = "unstarted"
    /\ events = <<>>
    /\ nevents = 0
    /\ processing = {}
    /\ outdir = {}
    /\ ledger \in InitLedgers
    /\ \A t \in Callbacks : cb[t] = Fresh

C18_StartupErrorsAbort ==
    /\ [](FatalAtStartup(env) => (main_pc \in {"start", "aborted"} /\ Untouched))
    /\ [](main_pc = "aborted" => FatalAtStartup(env))
    /\ [][(main_pc = "start" /\ main_pc' # "start") =>
            IF FatalAtStartup(env)
            THEN main_pc' = "aborted"
            ELSE /\ main_pc' = "loop"
                 /\ observer' = "running"
                 /\ ta_api' = (env.ta_api_url /\ env.ta_token /\ env.api_init_ok)]_vars

C18_Witness ==
    main_pc = "aborted" /\ env.navidrome_dir_exists /\ ~env.db_ok

\* C19: main leaves the sleep loop only by stopping the observer, and exits only
\* from join, with the observer stopped before and no callback still running; and
\* once the observer is stopped, main does exit.
C19_OrderlyShutdown ==
    /\ [](main_pc = "exited" =>
            (observer = "joined" /\ \A t \in Callbacks : cb[t].pc = "idle"))
    /\ [][(main_pc = "loop" /\ main_pc' # "loop") =>
            (main_pc' = "join" /\ observer' = "stopped")]_vars
    /\ [][(main_pc # "exited" /\ main_pc' = "exited") =>
            (main_pc = "join" /\ observer = "stopped" /\ observer' = "joined")]_vars
    /\ (main_pc = "join") ~> (main_pc = "exited")

C19_Witness ==
    /\ main_pc = "exited"
    /\ \E t \in Callbacks : cb[t].outcome = "ok"
    /\ events # <<>>

\* C20: process_video calls, in this order and each at most once, the hash, the
\* ledger lookup, the playlist check, the title lookup and the fetch.  A call that
\* ends because the file is gone or no video has called none of them; one that ends
\* for want of a hash, only the hash; one that ends on a hash the ledger holds, the
\* hash and the lookup; one that the playlist check rejects has made no title
\* lookup and no fetch.  The ledger never holds the empty string as a hash.
StepOrder == <<"hash", "ledger", "gate", "title", "fetch">>

C20_StepsInOrder ==
    /\ \A t \in Callbacks :
          /\ IsPrefix(cb[t].calls, StepOrder)
          /\ cb[t].outcome \in {"noexist", "notvideo"} => cb[t].calls = <<>>
          /\ cb[t].outcome = "hashfail" => cb[t].calls = <<"hash">>
          /\ cb[t].outcome = "dup" => cb[t].calls = <<"hash", "ledger">>
          /\ cb[t].outcome = "notqual" =>
                /\ cb[t].calls = <<"hash", "ledger", "gate">>
                /\ cb[t].invocations = 0
                /\ cb[t].fetch_result = "none"
    /\ \A i \in 1..Len(ledger) : ledger[i].file_hash # ""

C20_Witness ==
    /\ \E t \in Callbacks : cb[t].outcome = "hashfail"
    /\ \E t \in Callbacks : cb[t].outcome = "notqual"

====
